---- MODULE Spec2Model ----
(***************************************************************************)
(* State-machine model of src/src/predictor/cpu_predictor.cc: the CPU      *)
(* predictor of a gradient-boosted tree ensemble.  A call (PredictBatch,   *)
(* InplacePredict, PredictInstance, PredictLeaf, PredictContribution) is   *)
(* started from the idle state with arguments drawn from small sets; the   *)
(* parallel loops are run by worker threads that take tasks in any order.  *)
(* Vectors of the program are sequences here: C++ index i is TLA+ index    *)
(* i + 1 (operator At).  Floats are integers (exact arithmetic).           *)
(***************************************************************************)
EXTENDS Integers, Sequences, FiniteSets, TLC

\* ---------------------------------------------------------------- bounds
MaxThreads == 2
MaxTrees == 3
MaxGroups == 2
MaxRows == 129
NumFeature == 2

\* ------------------------------------------------------ program constants
kBlockOfRowsSize == 64
kUnroll == 8
\* a float that is not a number (common::CheckNAN)
NaN == -1
\* RegTree::FVec: the flag of an entry that holds no value
kMissing == -2

\* ---------------------------------------------------------------- helpers
At(s, i) == s[i + 1]
Min(a, b) == IF a < b THEN a ELSE b
Filled(n, v) == [i \in 1..n |-> v]
Pow2(n) == IF n = 0 THEN 1 ELSE IF n = 1 THEN 2 ELSE IF n = 2 THEN 4
           ELSE IF n = 3 THEN 8 ELSE IF n = 4 THEN 16 ELSE IF n = 5 THEN 32
           ELSE IF n = 6 THEN 64 ELSE IF n = 7 THEN 128 ELSE IF n = 8 THEN 256
           ELSE IF n = 9 THEN 512 ELSE 1024
\* The width of unsigned, scaled down from 32 bits so that a matrix of a few
\* rows has more cells than an unsigned can count
UnsignedBits == 6
\* The conversion of a size_t value to unsigned
Unsigned(x) == x % Pow2(UnsignedBits)

\* float comparison a != b: a NaN differs from everything
FloatNe(a, b) == a = NaN \/ b = NaN \/ a # b

\* ------------------------------------------------------------ RegTree
\* A tree is a single leaf (node 0) or one split (node 0) with the leaves 1
\* (left) and 2 (right): a row goes left when its value of the split feature
\* is below split_cond, and to the default child when the value is missing.
Tree(t) ==
  IF t % 3 = 1
    THEN [is_leaf |-> TRUE, split_index |-> 0, split_cond |-> 0, default_left |-> TRUE,
          leaf_value |-> <<Pow2(2 * t), 0, 0>>]
    ELSE [is_leaf |-> FALSE,
          split_index |-> IF t % 3 = 0 THEN 0 ELSE NumFeature - 1,
          split_cond |-> 1,
          default_left |-> (t % 3 = 2),
          leaf_value |-> <<0, Pow2(2 * t), Pow2(2 * t + 1)>>]

\* RegTree::FVec
FVecNew == [data |-> <<>>, has_missing |-> TRUE]
FVecSize(feats) == Len(feats.data)
FVecInit(size) == [data |-> Filled(size, kMissing), has_missing |-> TRUE]
RECURSIVE FillData(_, _, _)
FillData(data, inst, k) ==
  IF k > Len(inst) THEN data
  ELSE FillData(IF inst[k].index >= Len(data) THEN data
                ELSE [data EXCEPT ![inst[k].index + 1] = inst[k].fvalue],
                inst, k + 1)
FVecFillInst(feats, inst) ==
  [data |-> FillData(feats.data, inst, 1),
   has_missing |->
     (FVecSize(feats) # Cardinality({k \in 1..Len(inst) : inst[k].index < FVecSize(feats)}))]
FVecDropInst(feats, inst) ==
  [data |-> [i \in 1..Len(feats.data) |->
               IF \E k \in 1..Len(inst) : inst[k].index = i - 1
                 THEN kMissing ELSE feats.data[i]],
   has_missing |-> TRUE]
AllMissing(feats) == \A i \in 1..Len(feats.data) : feats.data[i] = kMissing

\* RegTree::GetLeafIndex<has_missing>: the fast path reads the value as it is
GetLeafIndex(tree, feats, has_missing) ==
  IF tree.is_leaf THEN 0
  ELSE LET v == At(feats.data, tree.split_index)
       IN  IF has_missing /\ v = kMissing
             THEN (IF tree.default_left THEN 1 ELSE 2)
             ELSE (IF v < tree.split_cond THEN 1 ELSE 2)
LeafValue(tree, nid) == At(tree.leaf_value, nid)

\* ------------------------------------------------------- gbm::GBTreeModel
MakeModel(T, G, s, slv) ==
  [trees |-> [t \in 1..T |-> Tree(t - 1)],
   tree_info |-> [t \in 1..T |-> ((t - 1) + s) % G],
   num_output_group |-> G,
   num_feature |-> NumFeature,
   base_score |-> 5,
   size_leaf_vector |-> slv]
\* The models: every tree count and group count, two assignments of the trees
\* to the groups; the unsupported leaf-vector size on the largest ones
Models ==
  {MakeModel(T, G, s, 0) : T \in 0..MaxTrees, G \in 1..MaxGroups, s \in {0, 1}}
  \cup {MakeModel(MaxTrees, G, 0, 1) : G \in 1..MaxGroups}

\* ------------------------------------------------------------------ data
\* The value of column c in row i of the data set: NaN, 0 or 1.
XValue(i, c) == <<NaN, 0, 1>>[(((i \div (c + 1)) + c) % 3) + 1]

\* DMatrix / SparsePage: row i holds the entries whose value is a number.
IsPresent(e) == e.fvalue # NaN
PageRow(i) ==
  SelectSeq([c \in 1..NumFeature |-> [index |-> c - 1, fvalue |-> XValue(i, c - 1)]],
            IsPresent)
\* p_fmat->GetBatches<SparsePage>(): the pages with their base row ids
Batches(d) ==
  IF d.nbatch = 0 THEN <<>>
  ELSE IF d.nbatch = 1 THEN <<[base_rowid |-> 0, size |-> d.n]>>
  ELSE <<[base_rowid |-> 0, size |-> 1], [base_rowid |-> 1, size |-> d.n - 1]>>
\* MetaInfo::base_margin_ of length len
BaseMargin(len) == [i \in 1..len |-> 100 + i]
\* The row counts of the data sets: the small ones and those around the
\* block boundaries
RowCounts == {n \in 0..MaxRows : n <= 2 \/ n >= MaxRows - 2 \/ n % kBlockOfRowsSize = 0
                                 \/ n % kBlockOfRowsSize = 1}
IsSmall(n) == n <= 2
\* The lengths of a base margin for n rows and G groups: none, right, wrong
MarginLens(n, G) == {0, n * G, n * G + 1} \cup (IF n > 0 THEN {(n - 1) * G} ELSE {})

\* Adapter (dense): line i holds one element per column
AdapterLine(d, i) == [c \in 1..d.columns |-> [column_idx |-> c - 1, value |-> XValue(i, c - 1)]]

VARIABLES
  pc,               \* where the call stands: idle, inited, loop, kernel, done, aborted
  call,             \* the arguments of the call
  info,             \* MetaInfo of the data matrix: num_row_, base margin
  out_preds,        \* the caller's prediction vector
  kern,             \* the frame of PredictBatchByBlockOfRowsKernel
  running,          \* per worker thread: the block task it runs
  thread_temp,      \* the feature vectors (feat_vecs / thread_temp)
  workspace,        \* AdapterView::workspace_
  current_unroll_,  \* AdapterView::current_unroll_
  loaded,           \* per feature vector: <<indices>> of the row it holds, or <<>>
  inter,            \* the frame of PredictInteractionContributions
  obs               \* what an observer of the run has seen so far
vars == <<pc, call, info, out_preds, kern, running, thread_temp, workspace,
          current_unroll_, loaded, inter, obs>>

NoCall == [mode |-> "none"]
NoInfo == [present |-> FALSE, num_row_ |-> 0, margin_len |-> 0]
NoKern == [status |-> "none", batch_no |-> 0, base_rowid |-> 0, nsize |-> 0,
           tree_begin |-> 0, tree_end |-> 0, n_row_blocks |-> 0,
           pending |-> {}, blocks |-> {}, entry |-> <<>>, mean_done |-> {}]
IdleTask == [step |-> "idle", block_id |-> 0, batch_offset |-> 0, block_size |-> 0,
             fvec_offset |-> 0]
NoObs == [warned |-> FALSE, fill_clean |-> TRUE, drop_match |-> TRUE, fvec_oob |-> FALSE,
          live |-> {}, live_max |-> 0, clobbered |-> FALSE, ws_oob |-> FALSE,
          count |-> <<>>, hist |-> <<>>, ret |-> "none",
          margin_oob |-> FALSE, bias |-> <<>>, mean_calls |-> <<>>,
          pv_fills |-> 0, pv_drops |-> 0]
\* No call of PredictInteractionContributions in progress
NoInter == [active |-> FALSE, stage |-> "none", i |-> 0, contribs |-> <<>>,
            contribs_diag |-> <<>>, contribs_off |-> <<>>, contribs_on |-> <<>>,
            passes |-> <<>>, written |-> {}, read |-> {}]

Init ==
  /\ pc = "idle"
  /\ call = NoCall
  /\ info = NoInfo
  /\ out_preds = <<>>
  /\ kern = NoKern
  /\ running = <<>>
  /\ thread_temp = <<>>
  /\ workspace = <<>>
  /\ current_unroll_ = <<>>
  /\ loaded = <<>>
  /\ inter = NoInter
  /\ obs = NoObs

\* ------------------------------------------------- the heap of a block task
\* The part of the state a block task changes, threaded through its loops.
Heap == [tt |-> thread_temp, ws |-> workspace, cu |-> current_unroll_, ld |-> loaded,
         ob |-> obs]
Overlap(b1, l1, b2, l2) == l1 > 0 /\ l2 > 0 /\ b1 < b2 + l2 /\ b2 < b1 + l1
LastN(q, n) == IF Len(q) <= n THEN q ELSE SubSeq(q, Len(q) - n + 1, Len(q))

\* SparsePageView::operator[]: a slice of the page, nothing is written
PageGet(c, h, base_rowid, i) ==
  [h |-> h, inst |-> [mem |-> "page", row |-> base_rowid + i, beg |-> 0, len |-> 0, t |-> 0]]

\* A variant that does not filter out the NaN values
Kept_KeepsNaN(c, i) ==
  LET row == AdapterLine(c.data, i)
      Keep(e) == FloatNe(c.missing, e.value)
  IN  SelectSeq(row, Keep)
\* AdapterView::operator[] on thread t: the values of line i that are present
\* are written to the thread's current window of the workspace
Kept(c, i) ==
  LET row == AdapterLine(c.data, i)
      Keep(e) == FloatNe(c.missing, e.value) /\ e.value # NaN
  IN  SelectSeq(row, Keep)
\* A variant whose thread windows are one row wide instead of kUnroll rows
AdapterBeg_NarrowThreadWindow(columns, t, unroll) == (columns * t) + (unroll * columns)
AdapterBeg(columns, t, unroll) == (columns * kUnroll * t) + (unroll * columns)
AdapterNextUnroll(unroll) == IF unroll + 1 = kUnroll THEN 0 ELSE unroll + 1
AdapterStore(c, h, t, i, kept) ==
  LET columns == c.data.columns
      beg == AdapterBeg(columns, t, At(h.cu, t))
      n == Len(kept)
      span == [mem |-> "workspace", row |-> i, beg |-> beg, len |-> n, t |-> t]
      ws2 == [j \in 1..Len(h.ws) |->
                IF j - 1 >= beg /\ j - 1 < beg + n
                  THEN [index |-> kept[j - beg].column_idx, fvalue |-> kept[j - beg].value]
                  ELSE h.ws[j]]
      live2 == h.ob.live \cup {span}
      ob2 == [h.ob EXCEPT
                !.ws_oob = @ \/ beg + n > Len(h.ws),
                !.clobbered = @ \/ \E s \in h.ob.live : Overlap(beg, n, s.beg, s.len),
                !.live = live2,
                !.live_max = IF Cardinality({s \in live2 : s.t = t}) > @
                               THEN Cardinality({s \in live2 : s.t = t}) ELSE @,
                !.count[t + 1] = @ + 1,
                !.hist[t + 1] = LastN(Append(@, [k |-> At(h.ob.count, t), beg |-> beg,
                                                 len |-> n]), kUnroll + 1)]
  IN  [h |-> [h EXCEPT !.ws = ws2, !.cu[t + 1] = AdapterNextUnroll(@), !.ob = ob2],
       inst |-> span]
AdapterGet(c, h, t, i) ==
  CHOOSE r \in {AdapterStore(c, h0, t, i, kept) : h0 \in {h}, kept \in {Kept(c, i)}} : TRUE

\* DataView::operator[]
ViewGet(c, h, base_rowid, t, i) ==
  IF c.mode = "InplacePredict" THEN AdapterGet(c, h, t, i) ELSE PageGet(c, h, base_rowid, i)
\* The entries a SparsePage::Inst shows when it is read
InstEntries(h, inst) ==
  IF inst.mem = "page" THEN PageRow(inst.row)
  ELSE [j \in 1..inst.len |-> IF inst.beg + j <= Len(h.ws) THEN h.ws[inst.beg + j]
                              ELSE [index |-> 0, fvalue |-> 0]]
IndexSet(ents) == {ents[k].index : k \in 1..Len(ents)}

\* One pass of the loop of FVecFill: row batch_offset + i into vector
\* fvec_offset + i
FillEntriesInto(v, num_feature, g, ents) ==
  LET used == [g.h EXCEPT !.ob.live = @ \ {g.inst}]
  IN  IF v >= Len(g.h.tt) THEN [used EXCEPT !.ob.fvec_oob = TRUE]
      ELSE LET feats0 == At(g.h.tt, v)
               feats == IF FVecSize(feats0) = 0 THEN FVecInit(num_feature) ELSE feats0
           IN  [used EXCEPT
                  !.tt[v + 1] = FVecFillInst(feats, ents),
                  !.ld[v + 1] = <<IndexSet(ents)>>,
                  !.ob.fill_clean = @ /\ AllMissing(feats) /\ At(g.h.ld, v) = <<>>]
FillRowInto(v, num_feature, g) ==
  CHOOSE r \in {FillEntriesInto(v, num_feature, g0, ents) :
                  g0 \in {g}, ents \in {InstEntries(g.h, g.inst)}} : TRUE
FVecFillRow(i, batch_offset, num_feature, c, base_rowid, fvec_offset, t, h) ==
  CHOOSE r \in {FillRowInto(fvec_offset + i, num_feature, g) :
                  g \in {ViewGet(c, h, base_rowid, t, batch_offset + i)}} : TRUE
\* The passes lo .. hi - 1 of the loop, in order: the first half, then the
\* second half on the heap the first half left
RECURSIVE FVecFillRange(_, _, _, _, _, _, _, _, _)
FVecFillRange(lo, hi, batch_offset, num_feature, c, base_rowid, fvec_offset, t, h) ==
  IF hi <= lo THEN h
  ELSE IF hi = lo + 1
    THEN FVecFillRow(lo, batch_offset, num_feature, c, base_rowid, fvec_offset, t, h)
  ELSE CHOOSE r \in
         {FVecFillRange((lo + hi) \div 2, hi, batch_offset, num_feature, c, base_rowid,
                        fvec_offset, t, hl) :
            hl \in {FVecFillRange(lo, (lo + hi) \div 2, batch_offset, num_feature, c,
                                  base_rowid, fvec_offset, t, h)}} : TRUE
\* A variant that converts all rows of the block before it fills the first
RECURSIVE ConvertRange(_, _, _, _, _, _, _)
ConvertRange(lo, hi, batch_offset, c, base_rowid, t, acc) ==
  IF hi <= lo THEN acc
  ELSE IF hi = lo + 1
    THEN CHOOSE r \in {[h |-> g.h, insts |-> Append(acc.insts, g.inst)] :
                         g \in {ViewGet(c, acc.h, base_rowid, t, batch_offset + lo)}} : TRUE
  ELSE CHOOSE r \in
         {ConvertRange((lo + hi) \div 2, hi, batch_offset, c, base_rowid, t, a) :
            a \in {ConvertRange(lo, (lo + hi) \div 2, batch_offset, c, base_rowid, t,
                                acc)}} : TRUE
RECURSIVE FillFromRange(_, _, _, _, _, _)
FillFromRange(lo, hi, insts, num_feature, fvec_offset, h) ==
  IF hi <= lo THEN h
  ELSE IF hi = lo + 1
    THEN FillRowInto(fvec_offset + lo, num_feature, [h |-> h, inst |-> insts[lo + 1]])
  ELSE CHOOSE r \in
         {FillFromRange((lo + hi) \div 2, hi, insts, num_feature, fvec_offset, hl) :
            hl \in {FillFromRange(lo, (lo + hi) \div 2, insts, num_feature, fvec_offset,
                                  h)}} : TRUE
FVecFill_ConvertsAllFirst(block_size, batch_offset, num_feature, c, base_rowid, fvec_offset, t, h) ==
  CHOOSE r \in
    {FillFromRange(0, block_size, a.insts, num_feature, fvec_offset, a.h) :
       a \in {ConvertRange(0, block_size, batch_offset, c, base_rowid, t,
                           [h |-> h, insts |-> <<>>])}} : TRUE
\* FVecFill
FVecFill(block_size, batch_offset, num_feature, c, base_rowid, fvec_offset, t, h) ==
  FVecFillRange(0, block_size, batch_offset, num_feature, c, base_rowid, fvec_offset, t, h)

\* One pass of the loop of FVecDrop
DropEntriesFrom(v, g, ents) ==
  LET used == [g.h EXCEPT !.ob.live = @ \ {g.inst}]
  IN  IF v >= Len(g.h.tt) THEN [used EXCEPT !.ob.fvec_oob = TRUE]
      ELSE [used EXCEPT
              !.tt[v + 1] = FVecDropInst(@, ents),
              !.ld[v + 1] = <<>>,
              !.ob.drop_match = @ /\ At(g.h.ld, v) = <<IndexSet(ents)>>]
DropRowFrom(v, g) ==
  CHOOSE r \in {DropEntriesFrom(v, g0, ents) :
                  g0 \in {g}, ents \in {InstEntries(g.h, g.inst)}} : TRUE
FVecDropRow(i, batch_offset, c, base_rowid, fvec_offset, t, h) ==
  CHOOSE r \in {DropRowFrom(fvec_offset + i, g) :
                  g \in {ViewGet(c, h, base_rowid, t, batch_offset + i)}} : TRUE
RECURSIVE FVecDropRange(_, _, _, _, _, _, _, _)
FVecDropRange(lo, hi, batch_offset, c, base_rowid, fvec_offset, t, h) ==
  IF hi <= lo THEN h
  ELSE IF hi = lo + 1 THEN FVecDropRow(lo, batch_offset, c, base_rowid, fvec_offset, t, h)
  ELSE CHOOSE r \in
         {FVecDropRange((lo + hi) \div 2, hi, batch_offset, c, base_rowid, fvec_offset, t,
                        hl) :
            hl \in {FVecDropRange(lo, (lo + hi) \div 2, batch_offset, c, base_rowid,
                                  fvec_offset, t, h)}} : TRUE
\* A variant that leaves the last row of the block in its feature vector
FVecDrop_SkipsLastRow(block_size, batch_offset, c, base_rowid, fvec_offset, t, h) ==
  FVecDropRange(0, block_size - 1, batch_offset, c, base_rowid, fvec_offset, t, h)
\* FVecDrop
FVecDrop(block_size, batch_offset, c, base_rowid, fvec_offset, t, h) ==
  FVecDropRange(0, block_size, batch_offset, c, base_rowid, fvec_offset, t, h)

\* ----------------------------------------------------------- the kernel
PredValueByOneTree(p_feats, tree) ==
  LeafValue(tree, GetLeafIndex(tree, p_feats, p_feats.has_missing))

\* A variant that adds every tree to the cell of group 0
AddTree_ToGroupZero(model, tree_id, preds, predict_offset, num_group, tt, offset, block_size) ==
  [j \in 1..Len(preds) |->
     LET i == (j - 1) \div num_group - predict_offset
     IN  IF /\ (j - 1) % num_group = 0
            /\ i >= 0 /\ i < block_size
            /\ offset + i < Len(tt)
           THEN preds[j] + PredValueByOneTree(At(tt, offset + i), At(model.trees, tree_id))
           ELSE preds[j]]
\* One pass of the inner loop of PredictByAllTrees: tree tree_id is added to
\* the cell of its group in each of the block_size rows
AddTree(model, tree_id, preds, predict_offset, num_group, tt, offset, block_size) ==
  LET gid == At(model.tree_info, tree_id)
  IN  [j \in 1..Len(preds) |->
         LET i == ((j - 1) - gid) \div num_group - predict_offset
         IN  IF /\ ((j - 1) - gid) % num_group = 0
                /\ j - 1 >= gid
                /\ i >= 0 /\ i < block_size
                /\ offset + i < Len(tt)
               THEN preds[j] + PredValueByOneTree(At(tt, offset + i), At(model.trees, tree_id))
               ELSE preds[j]]
RECURSIVE PredictByAllTrees(_, _, _, _, _, _, _, _, _)
PredictByAllTrees(model, tree_begin, tree_end, preds, predict_offset, num_group, tt, offset, block_size) ==
  IF tree_begin >= tree_end THEN preds
  ELSE CHOOSE r \in
         {PredictByAllTrees(model, tree_begin + 1, tree_end, added, predict_offset,
                            num_group, tt, offset, block_size) :
            added \in {AddTree(model, tree_begin, preds, predict_offset, num_group, tt,
                               offset, block_size)}} : TRUE

\* A variant in which the last block is taken to be full
BlockSize_AlwaysFull(nsize, batch_offset) == kBlockOfRowsSize
\* A variant that offsets the feature vectors by the thread id alone
FVecOffset_ThreadId(t) == t
\* n_row_blocks, batch_offset, block_size, fvec_offset of the kernel
NRowBlocks(nsize) ==
  (nsize \div kBlockOfRowsSize) + (IF nsize % kBlockOfRowsSize # 0 THEN 1 ELSE 0)
BatchOffset(block_id) == block_id * kBlockOfRowsSize
BlockSize(nsize, batch_offset) == Min(nsize - batch_offset, kBlockOfRowsSize)
FVecOffset(t) == t * kBlockOfRowsSize

\* CPUPredictor::InitThreadTemp
InitThreadTemp(nthread, out) ==
  IF Len(out) < nthread THEN out \o Filled(nthread - Len(out), FVecNew) ELSE out

\* A variant that takes the first n entries of a base margin that is too long
InitOutPredictions_TakesPrefix(inf, model) ==
  LET n == model.num_output_group * inf.num_row_
      base_margin == BaseMargin(inf.margin_len)
  IN  IF Len(base_margin) >= n
        THEN [preds |-> SubSeq(base_margin, 1, n), warned |-> FALSE]
        ELSE [preds |-> Filled(n, model.base_score), warned |-> Len(base_margin) # 0]
\* CPUPredictor::InitOutPredictions: the predictions and whether it warned
InitOutPredictions(inf, model) ==
  LET n == model.num_output_group * inf.num_row_
      base_margin == BaseMargin(inf.margin_len)
  IN  IF Len(base_margin) = n
        THEN [preds |-> base_margin, warned |-> FALSE]
        ELSE [preds |-> Filled(n, model.base_score), warned |-> Len(base_margin) # 0]

\* The prologue of PredictBatchByBlockOfRowsKernel for a view of nsize rows
KernelEntry(base_rowid, nsize, tree_begin, tree_end, batch_no, preds) ==
  [status |-> "running", batch_no |-> batch_no, base_rowid |-> base_rowid,
   nsize |-> nsize, tree_begin |-> tree_begin, tree_end |-> tree_end,
   n_row_blocks |-> NRowBlocks(nsize),
   pending |-> 0..(NRowBlocks(nsize) - 1), blocks |-> {}, entry |-> preds,
   mean_done |-> {}]

\* ------------------------------------------------------------ the calls
MakeCall(mode, model, d, threads, tree_begin, tree_end, missing, kind) ==
  [mode |-> mode, model |-> model, data |-> d, threads |-> threads,
   tree_begin |-> tree_begin, tree_end |-> tree_end, req_end |-> tree_end,
   missing |-> missing, kind |-> kind, row |-> 0,
   weighted |-> FALSE, approximate |-> FALSE, condition |-> 0, condition_feature |-> 0,
   inited |-> FALSE, prior |-> <<>>, info0 |-> NoInfo]
MakeData(n, nbatch, columns) == [n |-> n, nbatch |-> nbatch, columns |-> columns]
NumTrees(model) == Len(model.trees)
BigModel == MakeModel(MaxTrees, MaxGroups, 0, 0)
\* The tree ranges a caller asks for: end = 0 stands for all trees
TreeRanges(model) ==
  {r \in (0..1) \X (0..NumTrees(model)) :
     /\ r[1] <= NumTrees(model)
     /\ r[2] = 0 \/ (r[1] <= r[2] /\ r[2] >= NumTrees(model) - 1)}
\* The calls on a large data set use the largest model, no base margin and two
\* tree ranges; a call that starts from a base margin uses all trees
InScope(model, n, ml, r) ==
  /\ IsSmall(n) \/ (model = BigModel /\ ml = 0 /\ r \in {<<0, 0>>, <<1, NumTrees(model)>>})
  /\ ml = 0 \/ r = <<0, 0>>
SmallRowCounts == {n \in RowCounts : IsSmall(n)}
\* omp_get_max_threads(): one thread or the most
ThreadCounts == {1, MaxThreads}
NBatches(n) == IF n = 0 THEN {0, 1} ELSE IF n = 1 THEN {1} ELSE {1, 2}

\* Predictor::InitOutPredictions on the data matrix, as the booster calls it
\* before PredictBatch
InitOutPredictionsCall ==
  \E model \in Models, n \in RowCounts :
  \E nbatch \in NBatches(n), ml \in MarginLens(n, model.num_output_group) :
    LET inf == [present |-> TRUE, num_row_ |-> n, margin_len |-> ml]
        r == InitOutPredictions(inf, model)
    IN  /\ pc = "idle"
        /\ InScope(model, n, ml, <<0, 0>>)
        /\ pc' = "inited"
        /\ call' = MakeCall("InitOutPredictions", model, MakeData(n, nbatch, NumFeature),
                            0, 0, 0, NaN, "DMatrix")
        /\ info' = inf
        /\ out_preds' = r.preds
        /\ obs' = [obs EXCEPT !.warned = r.warned]
        /\ UNCHANGED <<kern, running, thread_temp, workspace, current_unroll_, loaded,
                       inter>>

\* CPUPredictor::PredictBatch up to the loop over the batches in PredictDMatrix
EnterPredictBatch(model, d, threads, tree_begin, tree_end, inited, preds) ==
  /\ pc' = "loop"
  /\ call' = [MakeCall("PredictBatch", model, d, threads, tree_begin, tree_end, NaN,
                       "DMatrix")
                EXCEPT !.tree_end = IF tree_end = 0 THEN NumTrees(model) ELSE tree_end,
                       !.inited = inited, !.prior = preds]
  /\ out_preds' = preds
  /\ thread_temp' = InitThreadTemp(threads * kBlockOfRowsSize, <<>>)
  /\ loaded' = Filled(threads * kBlockOfRowsSize, <<>>)
  /\ running' = Filled(threads, IdleTask)
  /\ kern' = NoKern
  /\ UNCHANGED <<workspace, current_unroll_>>
PredictBatch ==
  \/ /\ pc = "inited"
     /\ \E threads \in ThreadCounts, r \in TreeRanges(call.model) :
       /\ info.margin_len \in {0, info.num_row_ * call.model.num_output_group}
       /\ InScope(call.model, call.data.n, info.margin_len, r)
       /\ EnterPredictBatch(call.model, call.data, threads, r[1], r[2], TRUE, out_preds)
       /\ UNCHANGED <<info, obs, inter>>
  \/ \E model \in Models, n \in SmallRowCounts, len \in {-1, 0, 1} :
     \E nbatch \in NBatches(n) :
       /\ pc = "idle"
       /\ n * model.num_output_group + len >= 0
       /\ EnterPredictBatch(model, MakeData(n, nbatch, NumFeature), MaxThreads, 0, 0, FALSE,
                            Filled(n * model.num_output_group + len, 9))
       /\ info' = [present |-> TRUE, num_row_ |-> n, margin_len |-> 0]
       /\ UNCHANGED <<obs, inter>>

\* The head of the loop over the batches in PredictDMatrix, and the prologue of
\* the kernel on the next batch
NextBatch ==
  /\ pc = "loop"
  /\ IF kern.batch_no >= Len(Batches(call.data))
       THEN pc' = "done" /\ UNCHANGED kern
     ELSE IF Len(out_preds) # info.num_row_ * call.model.num_output_group
       THEN pc' = "aborted" /\ UNCHANGED kern
     ELSE IF call.model.size_leaf_vector # 0
       THEN pc' = "aborted" /\ UNCHANGED kern
     ELSE LET batch == Batches(call.data)[kern.batch_no + 1]
          IN  /\ pc' = "kernel"
              /\ kern' = KernelEntry(batch.base_rowid, batch.size, call.tree_begin,
                                     call.tree_end, kern.batch_no, out_preds)
  /\ UNCHANGED <<call, info, out_preds, running, thread_temp, workspace,
                 current_unroll_, loaded, obs>>
  /\ UNCHANGED inter

\* A worker thread takes a block and fills the block's feature vectors
TaskFill ==
  /\ pc = "kernel"
  /\ \E t \in 0..(call.threads - 1), block_id \in kern.pending :
    LET batch_offset == BatchOffset(block_id)
        block_size == BlockSize(kern.nsize, batch_offset)
        fvec_offset == FVecOffset(t)
    IN  /\ At(running, t).step = "idle"
        /\ running' = [running EXCEPT ![t + 1] =
                         [step |-> "predict", block_id |-> block_id,
                          batch_offset |-> batch_offset, block_size |-> block_size,
                          fvec_offset |-> fvec_offset]]
        /\ kern' = [kern EXCEPT !.pending = @ \ {block_id},
                                !.blocks = @ \cup {[block_id |-> block_id,
                                                    batch_offset |-> batch_offset,
                                                    block_size |-> block_size]}]
        /\ \E h \in {FVecFill(block_size, batch_offset, call.model.num_feature, call,
                              kern.base_rowid, fvec_offset, t, Heap)} :
             /\ thread_temp' = h.tt
             /\ workspace' = h.ws
             /\ current_unroll_' = h.cu
             /\ loaded' = h.ld
             /\ obs' = h.ob
        /\ UNCHANGED <<pc, call, info, out_preds>>
  /\ UNCHANGED inter

\* The thread runs its block of rows through all trees of the range
TaskPredict ==
  /\ pc = "kernel"
  /\ \E t \in 0..(call.threads - 1) :
    LET task == At(running, t)
    IN  /\ task.step = "predict"
        /\ running' = [running EXCEPT ![t + 1].step = "drop"]
        /\ out_preds' = PredictByAllTrees(call.model, kern.tree_begin, kern.tree_end,
                                          out_preds, task.batch_offset + kern.base_rowid,
                                          call.model.num_output_group, thread_temp,
                                          task.fvec_offset, task.block_size)
        /\ UNCHANGED <<pc, call, info, kern, thread_temp, workspace, current_unroll_,
                       loaded, obs>>
  /\ UNCHANGED inter

\* The thread drops the rows of its block from the feature vectors
TaskDrop ==
  /\ pc = "kernel"
  /\ \E t \in 0..(call.threads - 1) :
    LET task == At(running, t)
    IN  /\ task.step = "drop"
        /\ running' = [running EXCEPT ![t + 1] = IdleTask]
        /\ \E h \in {FVecDrop(task.block_size, task.batch_offset, call, kern.base_rowid,
                              task.fvec_offset, t, Heap)} :
             /\ thread_temp' = h.tt
             /\ workspace' = h.ws
             /\ current_unroll_' = h.cu
             /\ loaded' = h.ld
             /\ obs' = h.ob
        /\ UNCHANGED <<pc, call, info, out_preds, kern>>
  /\ UNCHANGED inter

\* The inputs InplacePredict knows, and one it does not
\* A variant that also dispatches the data-table input
AdapterKinds_WithDataTable ==
  {"DenseAdapter", "CSRAdapter", "ArrayAdapter", "CSRArrayAdapter", "DataTableAdapter"}
AdapterKinds == {"DenseAdapter", "CSRAdapter", "ArrayAdapter", "CSRArrayAdapter"}
InputKinds == AdapterKinds \cup {"DataTableAdapter"}
\* The data matrix that may come with the input: its base margin, and the row
\* count it holds before the call
ProxyInfo(n, ml) == [present |-> TRUE, num_row_ |-> n + 1, margin_len |-> ml]
ProxyInfos(n, G) == {NoInfo} \cup {ProxyInfo(n, ml) : ml \in MarginLens(n, G)}
\* The calls on another input kind, with another column count or with
\* predictions left from before are made on one row, with all trees and
\* without a base margin
InplaceScope(kind, model, n, columns, missing, p_m, prior, threads, r) ==
  /\ InScope(model, n, p_m.margin_len, r)
  /\ p_m.present => (r = <<0, 0>> /\ missing = NaN /\ IsSmall(n))
  /\ missing # NaN => r = <<0, 0>>
  /\ (kind # "DenseAdapter" \/ columns # NumFeature \/ prior # <<>>) =>
       (n = 1 /\ threads = 1 /\ r = <<0, 0>> /\ missing = NaN /\ p_m.margin_len = 0)

\* A variant that compares the column counts after the output is initialised
AtColumnsCheck_AfterInit(p_m, prior, inf, init) ==
  [info |-> IF p_m.present THEN inf ELSE p_m, out_preds |-> init.preds]
\* The data-matrix info and the output at the comparison of the column counts:
\* as the caller passed them
AtColumnsCheck(p_m, prior, inf, init) == [info |-> p_m, out_preds |-> prior]

\* CPUPredictor::InplacePredict with DispatchedInplacePredict, up to the
\* parallel loop of the kernel
EnterInplacePredict(kind, model, n, columns, missing, p_m, prior, threads, r) ==
  LET c == [MakeCall("InplacePredict", model, MakeData(n, 1, columns), threads,
                     r[1], r[2], missing, kind)
             EXCEPT !.prior = prior, !.info0 = p_m]
      inf == [p_m EXCEPT !.num_row_ = n]
      init == InitOutPredictions(inf, model)
  IN  /\ call' = c
      /\ IF kind \notin AdapterKinds
           THEN /\ pc' = "done"
                /\ obs' = [obs EXCEPT !.ret = "false"]
                /\ info' = p_m
                /\ out_preds' = prior
                /\ kern' = NoKern
                /\ running' = <<>> /\ loaded' = <<>> /\ thread_temp' = <<>>
                /\ workspace' = <<>> /\ current_unroll_' = <<>>
         ELSE IF columns # model.num_feature
           THEN /\ pc' = "aborted"
                /\ info' = AtColumnsCheck(p_m, prior, inf, init).info
                /\ out_preds' = AtColumnsCheck(p_m, prior, inf, init).out_preds
                /\ kern' = NoKern
                /\ running' = <<>> /\ loaded' = <<>> /\ thread_temp' = <<>>
                /\ workspace' = <<>> /\ current_unroll_' = <<>>
                /\ UNCHANGED obs
         ELSE /\ info' = (IF p_m.present THEN inf ELSE p_m)
              /\ out_preds' = init.preds
              /\ obs' = [obs EXCEPT !.warned = init.warned,
                                    !.count = Filled(threads, 0),
                                    !.hist = Filled(threads, <<>>)]
              /\ workspace' = Filled(columns * 8 * threads, [index |-> 0, fvalue |-> 0])
              /\ current_unroll_' = Filled(threads, 0)
              /\ thread_temp' = InitThreadTemp(threads * kBlockOfRowsSize, <<>>)
              /\ loaded' = Filled(threads * kBlockOfRowsSize, <<>>)
              /\ running' = Filled(threads, IdleTask)
              /\ IF model.size_leaf_vector # 0
                   THEN pc' = "aborted" /\ kern' = NoKern
                   ELSE /\ pc' = "kernel"
                        /\ kern' = KernelEntry(0, n, r[1], r[2], 0, init.preds)

InplacePredict ==
  /\ pc = "idle"
  /\ \E kind \in InputKinds, columns \in {NumFeature, NumFeature + 1},
        prior \in {<<>>, <<9, 9, 9>>}, n \in RowCounts, threads \in ThreadCounts :
       /\ (kind # "DenseAdapter" \/ columns # NumFeature \/ prior # <<>>) =>
            (n = 1 /\ threads = 1)
       /\ \E model \in Models, missing \in {NaN, 0} :
            /\ IsSmall(n) \/ model = BigModel
            /\ \E p_m \in ProxyInfos(n, model.num_output_group), r \in TreeRanges(model) :
                 /\ InplaceScope(kind, model, n, columns, missing, p_m, prior, threads, r)
                 /\ EnterInplacePredict(kind, model, n, columns, missing, p_m, prior,
                                        threads, r)
  /\ UNCHANGED inter

\* A kernel that returns to its caller without waiting for its block tasks
KernelReturn_Early ==
  /\ pc = "kernel"
  /\ kern' = [kern EXCEPT !.status = "returned", !.batch_no = @ + 1]
  /\ pc' = IF call.mode = "PredictBatch" THEN "loop" ELSE "done"
  /\ obs' = IF call.mode = "InplacePredict" THEN [obs EXCEPT !.ret = "true"] ELSE obs
  /\ UNCHANGED <<call, info, out_preds, running, thread_temp, workspace,
                 current_unroll_, loaded>>
  /\ UNCHANGED inter
\* common::ParallelFor joins: the kernel returns to its caller
KernelReturn ==
  /\ pc = "kernel"
  /\ kern.pending = {}
  /\ \A t \in 0..(call.threads - 1) : At(running, t).step = "idle"
  /\ kern' = [kern EXCEPT !.status = "returned", !.batch_no = @ + 1]
  /\ pc' = IF call.mode = "PredictBatch" THEN "loop" ELSE "done"
  /\ obs' = IF call.mode = "InplacePredict" THEN [obs EXCEPT !.ret = "true"] ELSE obs
  /\ UNCHANGED <<call, info, out_preds, running, thread_temp, workspace,
                 current_unroll_, loaded>>
  /\ UNCHANGED inter

\* ------------------------------------------------------- PredictInstance
\* PredValue: the row is filled into the vector, the leaf values of the trees
\* of group bst_group in [tree_begin, tree_end) are summed, the row is dropped
RECURSIVE SumGroup(_, _, _, _, _)
SumGroup(model, bst_group, feats, i, tree_end) ==
  IF i >= tree_end THEN 0
  ELSE (IF At(model.tree_info, i) = bst_group
          THEN LeafValue(At(model.trees, i), GetLeafIndex(At(model.trees, i), feats, TRUE))
          ELSE 0)
       + SumGroup(model, bst_group, feats, i + 1, tree_end)
PredValue(inst, model, bst_group, h, tree_begin, tree_end) ==
  LET ents == InstEntries(h, inst)
      feats == FVecFillInst(At(h.tt, 0), ents)
      filled == [h EXCEPT !.tt[1] = feats,
                          !.ld[1] = <<IndexSet(ents)>>,
                          !.ob.fill_clean = @ /\ AllMissing(At(h.tt, 0))
                                              /\ At(h.ld, 0) = <<>>,
                          !.ob.pv_fills = @ + 1]
      psum == SumGroup(model, bst_group, feats, tree_begin, tree_end)
      dropped == [filled EXCEPT !.tt[1] = FVecDropInst(@, ents),
                                !.ld[1] = <<>>,
                                !.ob.drop_match = @ /\ At(filled.ld, 0) = <<IndexSet(ents)>>,
                                !.ob.pv_drops = @ + 1]
  IN  [psum |-> psum, h |-> dropped]
\* ntree_limit of PredictInstance: counted per group in an unsigned, 0 or too
\* many means all
InstanceLimit(model, ntree_limit) ==
  LET limit == Unsigned(ntree_limit * model.num_output_group)
  IN  IF limit = 0 \/ limit > NumTrees(model) THEN NumTrees(model) ELSE limit
\* std::vector::resize: the old cells are kept, the new ones are zero
Resize(v, n) == [j \in 1..n |-> IF j <= Len(v) THEN v[j] ELSE 0]
\* The loop over the output groups, from group gid on
RECURSIVE InstanceGroups(_, _, _, _, _)
InstanceGroups(gid, inst, model, limit, st) ==
  IF gid >= model.num_output_group THEN st
  ELSE CHOOSE r \in
         {InstanceGroups(gid + 1, inst, model, limit,
                         [preds |-> [st.preds EXCEPT ![gid + 1] =
                                       pv.psum + model.base_score],
                          h |-> pv.h]) :
            pv \in {PredValue(inst, model, gid, st.h, 0, limit)}} : TRUE
\* The rows a caller passes to PredictInstance
InstanceRows == 0..5
\* The limits a caller passes: from none to more than the trees, and the
\* least one whose product with the groups is more than an unsigned holds
InstanceLimits(model) ==
  (0..(MaxTrees + 1)) \cup {(Pow2(UnsignedBits) \div model.num_output_group) + 1}
\* CPUPredictor::PredictInstance
PredictInstance ==
  /\ pc = "idle"
  /\ \E model \in Models, row \in InstanceRows, prior \in {<<>>, <<9, 9, 9>>} :
     \E ntree_limit \in InstanceLimits(model) :
       LET inst == [mem |-> "page", row |-> row, beg |-> 0, len |-> 0, t |-> 0]
           h0 == [Heap EXCEPT !.tt = <<FVecInit(model.num_feature)>>, !.ld = <<<<>>>>]
           limit == InstanceLimit(model, ntree_limit)
           size == model.num_output_group * (model.size_leaf_vector + 1)
       IN  /\ prior # <<>> => (row = 0 /\ ntree_limit = 0)
           /\ \E st \in {InstanceGroups(0, inst, model, limit,
                                        [preds |-> Resize(prior, size), h |-> h0])} :
                /\ out_preds' = st.preds
                /\ thread_temp' = st.h.tt
                /\ loaded' = st.h.ld
                /\ obs' = st.h.ob
           /\ call' = [MakeCall("PredictInstance", model, MakeData(1, 1, NumFeature), 1,
                                0, limit, NaN, "Inst")
                         EXCEPT !.req_end = ntree_limit, !.row = row]
           /\ pc' = "done"
           /\ UNCHANGED <<info, kern, running, workspace, current_unroll_>>
  /\ UNCHANGED inter

\* ----------------------------------- PredictLeaf and PredictContribution
\* A variant that counts the limit per output group, as PredictInstance does
TreeLimit_PerGroup(model, ntree_limit) ==
  IF ntree_limit * model.num_output_group = 0
       \/ ntree_limit * model.num_output_group > NumTrees(model)
    THEN NumTrees(model)
    ELSE ntree_limit * model.num_output_group
\* ntree_limit of PredictLeaf and PredictContribution: 0 or too many means all
TreeLimit(model, ntree_limit) ==
  IF ntree_limit = 0 \/ ntree_limit > NumTrees(model) THEN NumTrees(model)
  ELSE ntree_limit

\* CPUPredictor::PredictLeaf up to the loop over the batches
PredictLeaf ==
  /\ pc = "idle"
  /\ \E model \in Models, n \in SmallRowCounts, threads \in ThreadCounts,
        prior \in {<<>>, <<9, 9, 9>>} :
     \E nbatch \in NBatches(n), ntree_limit \in {0, 1, NumTrees(model), NumTrees(model) + 1} :
       /\ prior # <<>> => (threads = 1 /\ nbatch = 1)
       /\ call' = [MakeCall("PredictLeaf", model, MakeData(n, nbatch, NumFeature), threads,
                            0, TreeLimit(model, ntree_limit), NaN, "DMatrix")
                     EXCEPT !.req_end = ntree_limit]
       /\ info' = [present |-> TRUE, num_row_ |-> n, margin_len |-> 0]
       /\ thread_temp' = InitThreadTemp(threads, <<>>)
       /\ loaded' = Filled(threads, <<>>)
       /\ running' = Filled(threads, IdleTask)
       /\ out_preds' = Resize(prior, n * TreeLimit(model, ntree_limit))
       /\ kern' = NoKern
       /\ pc' = "rows_loop"
       /\ UNCHANGED <<workspace, current_unroll_, obs>>
  /\ UNCHANGED inter

\* The head of the loop over the batches in PredictLeaf and
\* PredictContribution: the rows of the next batch go to the worker threads;
\* after the last batch the call returns, a pass of
\* PredictInteractionContributions to that function
RowsNextBatch ==
  /\ pc = "rows_loop"
  /\ IF kern.batch_no >= Len(Batches(call.data))
       THEN pc' = (IF inter.active THEN "inter" ELSE "done") /\ UNCHANGED kern
       ELSE LET batch == Batches(call.data)[kern.batch_no + 1]
            IN  /\ pc' = "rows"
                /\ kern' = [kern EXCEPT !.status = "rows",
                                        !.base_rowid = batch.base_rowid,
                                        !.nsize = batch.size,
                                        !.pending = 0..(batch.size - 1)]
  /\ UNCHANGED <<call, info, out_preds, running, thread_temp, workspace,
                 current_unroll_, loaded, obs>>
  /\ UNCHANGED inter

\* The feature vector of thread tid, sized at first use, with the row filled in
FillThreadVec(h, tid, num_feature, ents) ==
  LET feats0 == At(h.tt, tid)
      feats == IF FVecSize(feats0) = 0 THEN FVecInit(num_feature) ELSE feats0
  IN  [h EXCEPT !.tt[tid + 1] = FVecFillInst(feats, ents),
                !.ld[tid + 1] = <<IndexSet(ents)>>,
                !.ob.fill_clean = @ /\ AllMissing(feats) /\ At(h.ld, tid) = <<>>]
DropThreadVec(h, tid, ents) ==
  [h EXCEPT !.tt[tid + 1] = FVecDropInst(@, ents),
            !.ld[tid + 1] = <<>>,
            !.ob.drop_match = @ /\ At(h.ld, tid) = <<IndexSet(ents)>>]

\* One row of the parallel loop of PredictLeaf on thread tid
LeafRow ==
  /\ pc = "rows"
  /\ call.mode = "PredictLeaf"
  /\ \E tid \in 0..(call.threads - 1), i \in kern.pending :
       LET ridx == kern.base_rowid + i
           ents == PageRow(ridx)
           filled == FillThreadVec(Heap, tid, call.model.num_feature, ents)
           ntree_limit == call.tree_end
           dropped == DropThreadVec(filled, tid, ents)
       IN  /\ kern' = [kern EXCEPT !.pending = @ \ {i}]
           /\ out_preds' =
                [j \in 1..Len(out_preds) |->
                   IF ntree_limit > 0 /\ (j - 1) \div ntree_limit = ridx
                     THEN GetLeafIndex(At(call.model.trees, (j - 1) % ntree_limit),
                                       At(filled.tt, tid), TRUE)
                     ELSE out_preds[j]]
           /\ thread_temp' = dropped.tt
           /\ loaded' = dropped.ld
           /\ obs' = dropped.ob
  /\ UNCHANGED <<pc, call, info, running, workspace, current_unroll_>>
  /\ UNCHANGED inter

\* RegTree::CalculateContributions and CalculateContributionsApprox: the
\* attribution of a tree's value to its split feature and to the bias (last).
\* Conditioned on a feature, the bias gets nothing and so does the feature
\* conditioned on; with the feature forced on (condition = 1) the split
\* feature gets twice the tree's left leaf value more than with it forced off
NodeMean(tree) == IF tree.is_leaf THEN tree.leaf_value[1] ELSE tree.leaf_value[2]
CalculateContributions(tree, feats, ncolumns, condition, condition_feature) ==
  LET reached == LeafValue(tree, GetLeafIndex(tree, feats, TRUE))
  IN  [k \in 1..ncolumns |->
         IF k = ncolumns THEN (IF condition = 0 THEN NodeMean(tree) ELSE 0)
         ELSE IF ~tree.is_leaf /\ k - 1 = tree.split_index
                 /\ ~(condition # 0 /\ condition_feature = tree.split_index)
           THEN reached - NodeMean(tree)
                  + (IF condition = 1 THEN 2 * tree.leaf_value[2] ELSE 0)
         ELSE 0]
CalculateContributionsApprox(tree, feats, ncolumns) ==
  CalculateContributions(tree, feats, ncolumns, 0, 0)
TreeWeight(weighted, j) == IF weighted THEN 2 ELSE 1

\* The calls of PredictContribution leave the plain case (all trees, no
\* weights, exact, unconditioned, no base margin, a new output vector) in one
\* respect; those that change how the trees are used take a model with the
\* most trees
ContribScope(model, ml, ntree_limit, weighted, approximate, condition, prior) ==
  /\ Cardinality({k \in 1..6 : <<ml # 0, ntree_limit # 0, weighted, approximate,
                                  condition # 0, prior # <<>>>>[k]}) <= 1
  /\ (ntree_limit # 0 \/ weighted \/ approximate \/ condition # 0) =>
       NumTrees(model) = MaxTrees
\* The output vectors a caller passes: a new one, or one used before
PriorContribs == {<<>>, Filled(3, 9)}

\* contribs.resize(...) followed by std::fill(contribs.begin(), contribs.end(), 0)
ResizeAndZero_NoFill(prior, size) == Resize(prior, size)
ResizeAndZero(prior, size) == [j \in 1..Len(Resize(prior, size)) |-> 0]

\* CPUPredictor::PredictContribution up to the parallel loop over the trees
EnterPredictContribution(model, d, threads, inf, ntree_limit, weighted, approximate, condition, condition_feature, out_contribs) ==
  LET limit == TreeLimit(model, ntree_limit)
      ngroup == model.num_output_group
      ncolumns == model.num_feature + 1
  IN  /\ call' = [MakeCall("PredictContribution", model, d, threads, 0, limit, NaN,
                           "DMatrix")
                    EXCEPT !.req_end = ntree_limit, !.weighted = weighted,
                           !.approximate = approximate, !.condition = condition,
                           !.condition_feature = condition_feature,
                           !.prior = out_contribs]
      /\ info' = inf
      /\ thread_temp' = InitThreadTemp(threads, <<>>)
      /\ loaded' = Filled(threads, <<>>)
      /\ running' = Filled(threads, IdleTask)
      /\ out_preds' = ResizeAndZero(out_contribs, inf.num_row_ * ncolumns * ngroup)
      /\ obs' = [obs EXCEPT !.bias = Filled(inf.num_row_ * ngroup, <<>>),
                            !.mean_calls = Filled(limit, 0)]
      /\ kern' = [NoKern EXCEPT !.status = "prepass", !.pending = 0..(limit - 1)]
      /\ pc' = "prepass"
      /\ UNCHANGED <<workspace, current_unroll_>>

\* A call of PredictContribution by the user
PredictContribution ==
  /\ pc = "idle"
  /\ \E model \in Models, n \in SmallRowCounts, threads \in ThreadCounts,
        weighted \in BOOLEAN, approximate \in BOOLEAN, condition \in {-1, 0, 1} :
     \E nbatch \in NBatches(n), ml \in MarginLens(n, model.num_output_group),
        ntree_limit \in {0, 1, NumTrees(model) + 1},
        condition_feature \in 0..model.num_feature, prior \in PriorContribs :
       /\ ContribScope(model, ml, ntree_limit, weighted, approximate, condition, prior)
       /\ condition = 0 => condition_feature = 0
       /\ EnterPredictContribution(model, MakeData(n, nbatch, NumFeature), threads,
                                   [present |-> TRUE, num_row_ |-> n, margin_len |-> ml],
                                   ntree_limit, weighted, approximate, condition,
                                   condition_feature, prior)
  /\ UNCHANGED inter

\* One tree of the parallel loop that fills the node mean values
FillNodeMeanValues ==
  /\ pc = "prepass"
  /\ \E i \in kern.pending :
       /\ kern' = [kern EXCEPT !.pending = @ \ {i}, !.mean_done = @ \cup {i}]
       /\ obs' = [obs EXCEPT !.mean_calls[i + 1] = @ + 1]
  /\ UNCHANGED <<pc, call, info, out_preds, running, thread_temp, workspace,
                 current_unroll_, loaded>>
  /\ UNCHANGED inter

\* A loop over the trees that lets the caller go on before its tasks are done
PrepassJoin_Early ==
  /\ pc = "prepass"
  /\ pc' = "rows_loop"
  /\ UNCHANGED <<call, info, out_preds, kern, running, thread_temp, workspace,
                 current_unroll_, loaded, obs>>
  /\ UNCHANGED inter
\* The parallel loop over the trees joins
PrepassJoin ==
  /\ pc = "prepass"
  /\ kern.pending = {}
  /\ pc' = "rows_loop"
  /\ UNCHANGED <<call, info, out_preds, kern, running, thread_temp, workspace,
                 current_unroll_, loaded, obs>>
  /\ UNCHANGED inter

\* The contributions of the trees of group gid for the filled row, weighted
RECURSIVE GroupContribs(_, _, _, _, _)
GroupContribs(c, gid, feats, ncolumns, j) ==
  IF j >= c.tree_end THEN Filled(ncolumns, 0)
  ELSE LET rest == GroupContribs(c, gid, feats, ncolumns, j + 1)
           this_tree_contribs ==
             IF c.approximate
               THEN CalculateContributionsApprox(At(c.model.trees, j), feats, ncolumns)
               ELSE CalculateContributions(At(c.model.trees, j), feats, ncolumns,
                                           c.condition, c.condition_feature)
       IN  IF At(c.model.tree_info, j) # gid THEN rest
           ELSE [ci \in 1..ncolumns |->
                   this_tree_contribs[ci] * TreeWeight(c.weighted, j) + rest[ci]]
\* The term added to the bias cell of (row_idx, gid); a read past the end of
\* the base margin yields any value
BiasTerm(c, inf, row_idx, gid, garbage) ==
  IF inf.margin_len # 0
    THEN (IF row_idx * c.model.num_output_group + gid < inf.margin_len
            THEN At(BaseMargin(inf.margin_len), row_idx * c.model.num_output_group + gid)
            ELSE garbage)
    ELSE c.model.base_score
\* The loop over the output groups for one row, from group gid on
RECURSIVE ContribGroups(_, _, _, _, _, _, _, _)
ContribGroups(gid, c, inf, row_idx, tid, ents, garbage, st) ==
  IF gid >= c.model.num_output_group THEN st
  ELSE
    LET ncolumns == c.model.num_feature + 1
        ngroup == c.model.num_output_group
        base == (row_idx * ngroup + gid) * ncolumns
        filled == FillThreadVec(st.h, tid, c.model.num_feature, ents)
        sum == GroupContribs(c, gid, At(filled.tt, tid), ncolumns, 0)
        dropped == DropThreadVec(filled, tid, ents)
        term == BiasTerm(c, inf, row_idx, gid, garbage)
        preds2 == [j \in 1..Len(st.preds) |->
                     IF j - 1 >= base /\ j - 1 < base + ncolumns
                       THEN st.preds[j] + sum[j - base]
                              + (IF j - base = ncolumns THEN term ELSE 0)
                       ELSE st.preds[j]]
        h2 == [dropped EXCEPT
                 !.ob.bias[row_idx * ngroup + gid + 1] = <<term>>,
                 !.ob.margin_oob = @ \/ (inf.margin_len # 0
                                          /\ row_idx * ngroup + gid >= inf.margin_len)]
    IN  CHOOSE r \in {ContribGroups(gid + 1, c, inf, row_idx, tid, ents, garbage, x) :
                        x \in {[preds |-> preds2, h |-> h2]}} : TRUE
\* What a read outside an array may yield
Garbage == {0, 7}

\* One row of the parallel loop of PredictContribution on thread tid
ContribRow ==
  /\ pc = "rows"
  /\ call.mode = "PredictContribution"
  /\ \E tid \in 0..(call.threads - 1), i \in kern.pending, garbage \in Garbage :
     /\ kern' = [kern EXCEPT !.pending = @ \ {i}]
     /\ \E st \in {ContribGroups(0, call, info, kern.base_rowid + i, tid,
                                 PageRow(kern.base_rowid + i), garbage,
                                 [preds |-> out_preds, h |-> Heap])} :
          /\ out_preds' = st.preds
          /\ thread_temp' = st.h.tt
          /\ loaded' = st.h.ld
          /\ obs' = st.h.ob
  /\ UNCHANGED <<pc, call, info, running, workspace, current_unroll_>>
  /\ UNCHANGED inter

\* The parallel loop over the rows of a batch joins
RowsJoin ==
  /\ pc = "rows"
  /\ kern.pending = {}
  /\ pc' = "rows_loop"
  /\ kern' = [kern EXCEPT !.batch_no = @ + 1]
  /\ UNCHANGED <<call, info, out_preds, running, thread_temp, workspace,
                 current_unroll_, loaded, obs>>
  /\ UNCHANGED inter

\* ------------------------------------------ PredictInteractionContributions
\* The least number of rows whose matrices have more cells than an unsigned
\* can count
WrapRows(model) ==
  (Pow2(UnsignedBits) \div (model.num_output_group * (model.num_feature + 1)
                                                   * (model.num_feature + 1))) + 1
\* The calls of PredictInteractionContributions: the models with the most
\* trees; the calls on two rows in one batch leave the plain case (one
\* thread, exact, a new output vector) in at most one respect; the plain
\* case on the most groups is also called with WrapRows rows
InteractionScope(model, n, nbatch, threads, approximate, prior) ==
  /\ NumTrees(model) = MaxTrees
  /\ model.size_leaf_vector = 0
  /\ Cardinality({k \in 1..3 : <<threads # 1, approximate, prior # <<>>>>[k]}) <= 1
  /\ (threads # 1 \/ approximate \/ prior # <<>>) => (n = 2 /\ nbatch = 1)
  /\ ~IsSmall(n) => (model.num_output_group = MaxGroups /\ nbatch = 1)

\* PredictInteractionContributions up to the parallel loop over the trees of
\* its first pass, the unconditioned one into contribs_diag
PredictInteractionContributions ==
  /\ pc = "idle"
  /\ \E model \in Models, threads \in ThreadCounts,
        approximate \in BOOLEAN, prior \in PriorContribs :
     \E n \in SmallRowCounts \cup {WrapRows(model)} :
     \E nbatch \in NBatches(n) :
       LET ngroup == model.num_output_group
           ncolumns == model.num_feature
           tmp == Filled(n * ngroup * (ncolumns + 1), 0)
       IN  /\ InteractionScope(model, n, nbatch, threads, approximate, prior)
           /\ inter' = [active |-> TRUE, stage |-> "diag", i |-> 0,
                        contribs |-> Resize(prior, n * ngroup * (ncolumns + 1)
                                                     * (ncolumns + 1)),
                        contribs_diag |-> tmp, contribs_off |-> tmp,
                        contribs_on |-> tmp, passes |-> << <<0, 0>> >>,
                        written |-> {}, read |-> {}]
           /\ EnterPredictContribution(model, MakeData(n, nbatch, NumFeature), threads,
                                       [present |-> TRUE, num_row_ |-> n, margin_len |-> 0],
                                       0, FALSE, approximate, 0, 0, tmp)

\* The head of the loop over i: the pass with feature i forced off into
\* contribs_off, or the return to the caller with the matrix
InteractionLoop ==
  /\ pc = "inter"
  /\ inter.stage \in {"diag", "composed"}
  /\ LET ncolumns == call.model.num_feature
         b == IF inter.stage = "diag" THEN [inter EXCEPT !.contribs_diag = out_preds]
              ELSE inter
     IN  IF b.i < ncolumns + 1
           THEN /\ inter' = [b EXCEPT !.stage = "off", !.passes = Append(@, <<-1, b.i>>)]
                /\ EnterPredictContribution(call.model, call.data, call.threads, info,
                                            call.req_end, call.weighted, call.approximate,
                                            -1, b.i, b.contribs_off)
           ELSE /\ inter' = [b EXCEPT !.stage = "done"]
                /\ pc' = "done"
                /\ out_preds' = b.contribs
                /\ call' = [call EXCEPT !.mode = "PredictInteractionContributions"]
                /\ UNCHANGED <<info, kern, running, thread_temp, workspace,
                               current_unroll_, loaded, obs>>

\* The pass with feature i forced on, into contribs_on
InteractionOn ==
  /\ pc = "inter"
  /\ inter.stage = "off"
  /\ inter' = [inter EXCEPT !.contribs_off = out_preds, !.stage = "on",
                            !.passes = Append(@, <<1, inter.i>>)]
  /\ EnterPredictContribution(call.model, call.data, call.threads, info, call.req_end,
                              call.weighted, call.approximate, 1, inter.i,
                              inter.contribs_on)

\* The places of row i of the matrix of (j, l) and of the cells of (j, l) in
\* the vectors of the passes
RowChunk(ngroup, ncolumns) == Unsigned(ngroup * (ncolumns + 1) * (ncolumns + 1))
MRowChunk(ncolumns) == Unsigned((ncolumns + 1) * (ncolumns + 1))
CRowChunk(ngroup, ncolumns) == Unsigned(ngroup * (ncolumns + 1))
OOffset(j, l, i, ngroup, ncolumns) ==
  Unsigned(j * RowChunk(ngroup, ncolumns) + l * MRowChunk(ncolumns) + i * (ncolumns + 1))
COffset(j, l, ngroup, ncolumns) ==
  Unsigned(j * CRowChunk(ngroup, ncolumns) + l * (ncolumns + 1))
\* The whole difference of the two passes as the interaction
OffDiagonal_NoHalf(b, c_offset, k) ==
  At(b.contribs_on, c_offset + k) - At(b.contribs_off, c_offset + k)
\* The interaction of i with k # i: half the difference of the two passes
\* (the sample contributions make the halves whole numbers)
OffDiagonal(b, c_offset, k) ==
  (At(b.contribs_on, c_offset + k) - At(b.contribs_off, c_offset + k)) \div 2
\* The sum of the interactions of i with the k # i up to kmax
RECURSIVE OffDiagonalSum(_, _, _, _)
OffDiagonalSum(b, c_offset, i, kmax) ==
  IF kmax < 0 THEN 0
  ELSE (IF kmax = i THEN 0 ELSE OffDiagonal(b, c_offset, kmax))
         + OffDiagonalSum(b, c_offset, i, kmax - 1)
\* A loop over k that leaves the additive effect alone on the diagonal
InteractionCell_DiagonalOnly(b, i, j, l, k, ngroup, ncolumns) ==
  LET c_offset == COffset(j, l, ngroup, ncolumns)
  IN  IF k = i THEN At(b.contribs_diag, c_offset + i)
      ELSE OffDiagonal(b, c_offset, k)
\* The value the loop over k leaves in contribs[o_offset + k]
InteractionCell(b, i, j, l, k, ngroup, ncolumns) ==
  LET c_offset == COffset(j, l, ngroup, ncolumns)
  IN  IF k = i
        THEN At(b.contribs_diag, c_offset + i) - OffDiagonalSum(b, c_offset, i, ncolumns)
        ELSE OffDiagonal(b, c_offset, k)
\* The loops over j, l and k for one i
ComposeRow(b, i, num_row, ngroup, ncolumns) ==
  [idx \in 1..Len(b.contribs) |->
     LET writes == {w \in (0..(num_row - 1)) \X (0..(ngroup - 1)) \X (0..ncolumns) :
                      OOffset(w[1], w[2], i, ngroup, ncolumns) + w[3] = idx - 1}
     IN  IF writes = {} THEN b.contribs[idx]
         ELSE LET w == CHOOSE w \in writes :
                         \A v \in writes : v[1] * ngroup + v[2] <= w[1] * ngroup + w[2]
              IN  InteractionCell(b, i, w[1], w[2], w[3], ngroup, ncolumns)]
\* The cells the loops over j, l and k write for one i, each with its j, l,
\* i and k
ComposeWrites(i, num_row, ngroup, ncolumns) ==
  {<<w[1], w[2], i, w[3], OOffset(w[1], w[2], i, ngroup, ncolumns) + w[3]>> :
     w \in (0..(num_row - 1)) \X (0..(ngroup - 1)) \X (0..ncolumns)}
\* The cells of the vectors of the passes they read, each with its j, l and k
ComposeReads(num_row, ngroup, ncolumns) ==
  {<<w[1], w[2], w[3], COffset(w[1], w[2], ngroup, ncolumns) + w[3]>> :
     w \in (0..(num_row - 1)) \X (0..(ngroup - 1)) \X (0..ncolumns)}

\* Row i of the matrix of every data row and group is composed; ++i
InteractionCompose ==
  /\ pc = "inter"
  /\ inter.stage = "on"
  /\ LET b == [inter EXCEPT !.contribs_on = out_preds]
     IN  inter' = [b EXCEPT !.contribs = ComposeRow(b, b.i, info.num_row_,
                                                     call.model.num_output_group,
                                                     call.model.num_feature),
                            !.i = @ + 1, !.stage = "composed",
                            !.written = @ \cup ComposeWrites(b.i, info.num_row_,
                                                             call.model.num_output_group,
                                                             call.model.num_feature),
                            !.read = @ \cup ComposeReads(info.num_row_,
                                                         call.model.num_output_group,
                                                         call.model.num_feature)]
  /\ UNCHANGED <<pc, call, info, out_preds, kern, running, thread_temp, workspace,
                 current_unroll_, loaded, obs>>

Next ==
  \/ InitOutPredictionsCall
  \/ PredictBatch
  \/ InplacePredict
  \/ NextBatch
  \/ TaskFill
  \/ TaskPredict
  \/ TaskDrop
  \/ KernelReturn
  \/ PredictInstance
  \/ PredictLeaf
  \/ RowsNextBatch
  \/ LeafRow
  \/ PredictContribution
  \/ FillNodeMeanValues
  \/ PrepassJoin
  \/ ContribRow
  \/ RowsJoin
  \/ PredictInteractionContributions
  \/ InteractionLoop
  \/ InteractionOn
  \/ InteractionCompose

Spec == Init /\ [][Next]_vars

\* The steps of a call in progress: the tasks of the thread pool, the joins
\* and the sequential steps of the calling thread
Steps ==
  \/ NextBatch
  \/ TaskFill
  \/ TaskPredict
  \/ TaskDrop
  \/ KernelReturn
  \/ RowsNextBatch
  \/ LeafRow
  \/ FillNodeMeanValues
  \/ PrepassJoin
  \/ ContribRow
  \/ RowsJoin
  \/ InteractionLoop
  \/ InteractionOn
  \/ InteractionCompose
\* The threads of the pool and the calling thread are scheduled fairly: while
\* a call has a step to take, a step is taken in the end. Nothing obliges
\* the user to make a call.
FairSpec == Spec /\ WF_vars(Steps)

\* ================================================================ claims
\* The leaf a row reaches, read off the data set itself: value x of the split
\* feature is missing when it is NaN or equals the caller's missing value.
RefLeafValue(tree, i, missing) ==
  IF tree.is_leaf THEN tree.leaf_value[1]
  ELSE LET x == XValue(i, tree.split_index)
       IN  IF x = NaN \/ x = missing
             THEN (IF tree.default_left THEN tree.leaf_value[2] ELSE tree.leaf_value[3])
             ELSE (IF x < tree.split_cond THEN tree.leaf_value[2] ELSE tree.leaf_value[3])
\* The trees of [tree_begin, tree_end) that belong to group g
TreesOf(model, tree_begin, tree_end, g) ==
  {t \in tree_begin..(tree_end - 1) : At(model.tree_info, t) = g}
RECURSIVE SumOver(_, _, _, _)
SumOver(S, model, i, missing) ==
  IF S = {} THEN 0
  ELSE LET t == CHOOSE x \in S : TRUE
       IN  RefLeafValue(At(model.trees, t), i, missing)
             + SumOver(S \ {t}, model, i, missing)
RefSum(model, tree_begin, tree_end, g, i, missing) ==
  SumOver(TreesOf(model, tree_begin, tree_end, g), model, i, missing)

\* C1: when the kernel has returned for a batch of n rows with base row id b,
\* output[(b+r)*numGroups+g] is its value on entry plus the leaf values that
\* row r reaches in the trees of [tree_begin, tree_end) assigned to g, each
\* added once, whatever threads ran the blocks and in whatever order.
C1_KernelAddsLeafValues ==
  kern.status = "returned" =>
    \A r \in 0..(kern.nsize - 1), g \in 0..(call.model.num_output_group - 1) :
      LET cell == (kern.base_rowid + r) * call.model.num_output_group + g
      IN  At(out_preds, cell) =
            At(kern.entry, cell)
              + RefSum(call.model, kern.tree_begin, kern.tree_end, g,
                       kern.base_rowid + r, call.missing)
C1_Witness ==
  /\ kern.status = "returned"
  /\ kern.n_row_blocks >= 2
  /\ call.threads >= 2
  /\ kern.base_rowid > 0
  /\ call.model.num_output_group >= 2
  /\ kern.tree_end - kern.tree_begin >= 2
  /\ out_preds # kern.entry

\* C2: the kernel dispatches exactly ceil(n/64) block tasks; block k covers
\* the rows [64k, min(64k+64, n)), holds between 1 and 64 rows, and every row
\* of [0, n) is in exactly one block, so that no output cell belongs to two
\* block tasks of one kernel call.
CeilDiv(n, d) == CHOOSE k \in 0..n : k * d >= n /\ (k = 0 \/ (k - 1) * d < n)
RowsOf(b) == b.batch_offset..(b.batch_offset + b.block_size - 1)
CellsOf(b) ==
  {(kern.base_rowid + r) * call.model.num_output_group + g :
     r \in RowsOf(b), g \in 0..(call.model.num_output_group - 1)}
C2_BlocksPartitionRows ==
  kern.status \in {"running", "returned"} =>
    /\ kern.n_row_blocks = CeilDiv(kern.nsize, 64)
    /\ \A b \in kern.blocks :
         /\ b.block_id \in 0..(kern.n_row_blocks - 1)
         /\ b.batch_offset = 64 * b.block_id
         /\ RowsOf(b) = (64 * b.block_id)..(Min(64 * b.block_id + 64, kern.nsize) - 1)
         /\ b.block_size >= 1 /\ b.block_size <= 64
    /\ \A b1, b2 \in kern.blocks : b1 # b2 => CellsOf(b1) \cap CellsOf(b2) = {}
    /\ kern.status = "returned" =>
         /\ Cardinality(kern.blocks) = CeilDiv(kern.nsize, 64)
         /\ \A r \in 0..(kern.nsize - 1) :
              Cardinality({b \in kern.blocks : r \in RowsOf(b)}) = 1
C2_Witness ==
  /\ kern.status = "returned"
  /\ kern.nsize = 129
  /\ Cardinality(kern.blocks) = 3
  /\ \E b \in kern.blocks : b.block_size = 1

\* C3: while a kernel started by PredictBatch or InplacePredict runs, the pool
\* holds at least numThreads*64 feature vectors, the vectors of the block task
\* on thread t lie in [64t, 64t+64) and inside the pool, and the vectors that
\* hold a row are those of the running tasks: tasks on different threads
\* never share a feature vector.
Busy == {t \in 0..(call.threads - 1) : At(running, t).step # "idle"}
VecsOf(t) == At(running, t).fvec_offset..(At(running, t).fvec_offset
                                           + At(running, t).block_size - 1)
C3_ThreadsOwnTheirVectors ==
  pc = "kernel" =>
    /\ Len(thread_temp) >= call.threads * 64
    /\ ~obs.fvec_oob
    /\ \A t \in Busy :
         /\ VecsOf(t) \subseteq (64 * t)..(64 * t + 63)
         /\ VecsOf(t) \subseteq 0..(Len(thread_temp) - 1)
    /\ \A t1, t2 \in Busy : t1 # t2 => VecsOf(t1) \cap VecsOf(t2) = {}
    /\ \A v \in 0..(Len(thread_temp) - 1) :
         At(loaded, v) # <<>> => \E t \in Busy : v \in VecsOf(t)
C3_Witness ==
  /\ pc = "kernel"
  /\ call.threads >= 2
  /\ At(running, 0).step = "drop" /\ At(running, 0).block_size = 64
  /\ At(running, 1).step = "drop" /\ At(running, 1).block_size = 64
  /\ At(loaded, 0) # <<>> /\ At(loaded, 64) # <<>>

\* The leaf a row reaches, by its node id
RefLeafIndex(tree, i) ==
  IF tree.is_leaf THEN 0
  ELSE LET x == XValue(i, tree.split_index)
       IN  IF x = NaN THEN (IF tree.default_left THEN 1 ELSE 2)
           ELSE (IF x < tree.split_cond THEN 1 ELSE 2)

\* C4: in every mode each Fill of a feature vector finds the vector all
\* missing and is followed by one Drop on the same vector with a row of the
\* same feature indices, before the vector is filled again, before the block
\* task ends and before the call returns; a vector that holds no row is in the
\* state it had before its first Fill, and a row's result (here the leaf
\* indices) does not depend on the rows that went through the vector before.
C4_FillThenDrop ==
  /\ obs.fill_clean
  /\ obs.drop_match
  /\ \A v \in 0..(Len(thread_temp) - 1) :
       IF At(loaded, v) = <<>>
         THEN At(thread_temp, v) \in {FVecNew, FVecInit(call.model.num_feature)}
         ELSE pc = "kernel" /\ \E t \in Busy : v \in VecsOf(t)
  /\ (pc = "done" /\ call.mode = "PredictLeaf") =>
       \A j \in 0..(Len(out_preds) - 1) :
         At(out_preds, j) =
           RefLeafIndex(At(call.model.trees, j % call.tree_end), j \div call.tree_end)
C4_Witness ==
  /\ pc = "kernel"
  /\ call.mode = "InplacePredict"
  /\ kern.pending = {}
  /\ kern.n_row_blocks >= 2
  /\ \A t \in 0..(call.threads - 1) : At(running, t).step = "idle"
  /\ \E v \in 0..(Len(thread_temp) - 1) :
       At(thread_temp, v) = FVecInit(call.model.num_feature)
  /\ At(obs.count, 0) >= 2 * kBlockOfRowsSize

\* C5: in the adapter view the workspace holds numColumns*8*numThreads
\* entries and the k-th conversion of thread t writes inside the window
\* [(8t + k mod 8)*numColumns, (8t + k mod 8 + 1)*numColumns): in bounds,
\* apart from the windows of the other threads, apart from the windows of the
\* thread's conversions fewer than 8 away, and on the window of the
\* conversion 8 before it.
HistOf(t) == At(obs.hist, t)
C5_AdapterWindows ==
  (call.mode = "InplacePredict" /\ pc \in {"kernel", "done"} /\ obs.ret # "false") =>
    LET columns == call.data.columns
    IN  /\ Len(workspace) = columns * 8 * call.threads
        /\ ~obs.ws_oob
        /\ \A t \in 0..(call.threads - 1) : \A a \in 1..Len(HistOf(t)) :
             LET e == HistOf(t)[a]
                 slot == 8 * t + (e.k % 8)
             IN  /\ e.beg >= slot * columns
                 /\ e.beg + e.len <= (slot + 1) * columns
                 /\ e.beg + e.len <= Len(workspace)
                 /\ \A b \in 1..Len(HistOf(t)) :
                      LET f == HistOf(t)[b]
                      IN  /\ (f.k > e.k /\ f.k - e.k < 8) =>
                               ~Overlap(e.beg, columns, f.beg, columns)
                          /\ f.k - e.k = 8 => f.beg = e.beg
                 /\ \A u \in 0..(call.threads - 1) : \A b \in 1..Len(HistOf(u)) :
                      u # t => ~Overlap(e.beg, columns, HistOf(u)[b].beg, columns)
C5_Witness ==
  /\ call.mode = "InplacePredict"
  /\ pc = "kernel"
  /\ call.threads >= 2
  /\ \A t \in 0..1 : /\ Len(HistOf(t)) = kUnroll + 1
                       /\ HistOf(t)[1].beg = HistOf(t)[kUnroll + 1].beg
                       /\ HistOf(t)[1].len > 0
                       /\ HistOf(t)[2].beg # HistOf(t)[1].beg

\* C6: during in-place predict no conversion writes over a converted row that
\* has not yet been consumed by Fill or Drop, and no thread ever holds more
\* than 8 unconsumed converted rows, although it converts each of the up to 64
\* rows of a block once for Fill and once for Drop.
C6_LiveRowsKept ==
  /\ ~obs.clobbered
  /\ obs.live_max <= 8
  /\ \A t \in 0..(Len(obs.count) - 1) : Cardinality({s \in obs.live : s.t = t}) <= 8
C6_Witness ==
  /\ call.mode = "InplacePredict"
  /\ pc = "done"
  /\ obs.live_max >= 1
  /\ \E t \in 0..(call.threads - 1) : At(obs.count, t) >= 4 * kBlockOfRowsSize

\* C7: whenever the block kernel runs, in full-batch predict and in in-place
\* predict, a requested range end of 0 has been replaced by the number of
\* trees, so that the kernel never runs with end = 0 on a model with trees.
C7_EndZeroMeansAllTrees ==
  (kern.status \in {"running", "returned"} /\ call.req_end = 0) =>
    /\ kern.tree_end = NumTrees(call.model)
    /\ kern.tree_begin = call.tree_begin

\* C8: with no base margin and the tree range [0, numTrees), full-batch predict
\* on an output initialised by InitOutPredictions, in-place predict and
\* single-row predict (tree limit 0) give for a row and a group g the same
\* value: the base score plus the leaf values of the trees assigned to g.
RefPrediction(row, g) ==
  call.model.base_score + RefSum(call.model, 0, NumTrees(call.model), g, row, NaN)
FullRange == call.tree_begin = 0 /\ call.tree_end = NumTrees(call.model)
C8_ModesAgree ==
  /\ (pc = "done" /\ call.mode = "PredictBatch" /\ call.inited /\ info.margin_len = 0
        /\ FullRange) =>
       \A row \in 0..(call.data.n - 1), g \in 0..(call.model.num_output_group - 1) :
         At(out_preds, row * call.model.num_output_group + g) = RefPrediction(row, g)
  /\ (pc = "done" /\ call.mode = "InplacePredict" /\ obs.ret = "true"
        /\ info.margin_len = 0 /\ call.missing = NaN /\ FullRange) =>
       \A row \in 0..(call.data.n - 1), g \in 0..(call.model.num_output_group - 1) :
         At(out_preds, row * call.model.num_output_group + g) = RefPrediction(row, g)
  /\ (pc = "done" /\ call.mode = "PredictInstance" /\ call.req_end = 0) =>
       \A g \in 0..(call.model.num_output_group - 1) :
         At(out_preds, g) = RefPrediction(call.row, g)
C8_Witness ==
  /\ pc = "done" /\ call.mode = "InplacePredict" /\ obs.ret = "true"
  /\ info.margin_len = 0 /\ call.missing = NaN /\ FullRange
  /\ call.data.n >= 2
  /\ call.model.num_output_group >= 2
  /\ NumTrees(call.model) >= 3
  /\ \E j \in 1..Len(out_preds) : out_preds[j] > call.model.base_score + 1

\* C9: InitOutPredictions leaves numRows*numOutputGroups cells: the base
\* margin, cell for cell, when the margin has exactly that many entries, and
\* the base score in every cell otherwise, with a warning exactly when the
\* margin is not empty; the call completes in all these cases.
C9_InitOutPredictions ==
  pc = "inited" =>
    LET n == info.num_row_ * call.model.num_output_group
    IN  /\ Len(out_preds) = n
        /\ IF info.margin_len = n
             THEN /\ \A j \in 1..n : out_preds[j] = BaseMargin(info.margin_len)[j]
                  /\ ~obs.warned
             ELSE /\ \A j \in 1..n : out_preds[j] = call.model.base_score
                  /\ obs.warned <=> info.margin_len # 0
C9_Witness ==
  /\ pc = "inited"
  /\ info.num_row_ = 2
  /\ info.margin_len = (info.num_row_ - 1) * call.model.num_output_group
  /\ obs.warned
  /\ out_preds = Filled(2 * call.model.num_output_group, call.model.base_score)

\* C10: in contribution predict the bias cell of (row, group) receives
\* base_margin[row*numGroups+group] only when the base margin has
\* numRows*numGroups entries, and the base score in every other case; no entry
\* outside the base margin is read.
C10_BiasUsesCheckedMargin ==
  call.mode = "PredictContribution" =>
    /\ ~obs.margin_oob
    /\ \A cell \in 0..(Len(obs.bias) - 1) :
         At(obs.bias, cell) # <<>> =>
           At(obs.bias, cell)[1] =
             (IF info.margin_len # 0
                 /\ info.margin_len = info.num_row_ * call.model.num_output_group
                THEN At(BaseMargin(info.margin_len), cell)
                ELSE call.model.base_score)

\* C11: in-place predict on an input that is none of the four adapter kinds
\* returns false, raises nothing and leaves the predictions, the data-matrix
\* info and the rest of the state as they were; on each of the four kinds it
\* runs the prediction and returns true.
FourKinds == {"DenseAdapter", "CSRAdapter", "ArrayAdapter", "CSRArrayAdapter"}
C11_UnknownInputDeclined ==
  call.mode = "InplacePredict" =>
    IF call.kind \notin FourKinds
      THEN /\ pc = "done" /\ obs.ret = "false"
           /\ out_preds = call.prior
           /\ info = call.info0
           /\ kern = NoKern
           /\ thread_temp = <<>> /\ workspace = <<>>
           /\ obs = [NoObs EXCEPT !.ret = "false"]
      ELSE /\ obs.ret # "false"
           /\ (call.data.columns = call.model.num_feature
                 /\ call.model.size_leaf_vector = 0) =>
                /\ pc \in {"kernel", "done"}
                /\ kern.status \in {"running", "returned"}
                /\ pc = "done" <=> obs.ret = "true"
C11_Witness ==
  /\ call.mode = "InplacePredict"
  /\ call.kind \notin FourKinds
  /\ pc = "done"
  /\ obs.ret = "false"
  /\ call.prior # <<>>
  /\ out_preds = call.prior
  /\ info.present /\ info = call.info0

\* C12: in-place predict on an input whose column count differs from the
\* feature count of the model aborts, and at the abort the output is as the
\* caller passed it (size and contents), the row count of the data matrix is
\* not updated and no row has been converted or evaluated.
ColumnsDiffer ==
  /\ call.mode = "InplacePredict"
  /\ call.kind \in FourKinds
  /\ call.data.columns # call.model.num_feature
C12_ColumnMismatchAborts ==
  ColumnsDiffer =>
    /\ pc = "aborted"
    /\ out_preds = call.prior
    /\ info = call.info0
    /\ kern = NoKern
    /\ workspace = <<>> /\ thread_temp = <<>>
    /\ obs.count = <<>> /\ obs.hist = <<>>
C12_Witness ==
  /\ ColumnsDiffer
  /\ pc = "aborted"
  /\ call.data.n = 1
  /\ out_preds = <<>>
  /\ info.present /\ info.num_row_ # call.data.n

\* C13: with a model whose size_leaf_vector is not 0, full-batch predict and
\* in-place predict abort, and at the abort the caller's output (size and
\* contents) and the row count of the data matrix are as before the call.
LeafVectorCall ==
  /\ call.model.size_leaf_vector # 0
  /\ \/ call.mode = "PredictBatch"
     \/ /\ call.mode = "InplacePredict"
        /\ call.kind \in FourKinds
        /\ call.data.columns = call.model.num_feature
C13_LeafVectorAbortKeepsState ==
  (call.mode \in {"PredictBatch", "InplacePredict"} /\ LeafVectorCall) =>
    /\ pc \in {"loop", "aborted"}
    /\ kern.status = "none"
    /\ pc = "aborted" =>
         /\ out_preds = call.prior
         /\ call.mode = "InplacePredict" => info = call.info0

\* C14: full-batch predict with an output whose size is not
\* numRows*numOutputGroups aborts, for every data source, also one with no
\* rows or no batches, and no output cell is modified before the abort.
C14_SizeMismatchAborts ==
  (call.mode = "PredictBatch"
     /\ Len(call.prior) # info.num_row_ * call.model.num_output_group) =>
    /\ pc \in {"loop", "aborted"}
    /\ kern.status = "none"
    /\ out_preds = call.prior

\* C15: leaf-index predict with tree limit L uses L' = numTrees when L = 0 or
\* L > numTrees and L' = L otherwise; the output has numRows*L' cells and at
\* the return cell r*L' + j holds the leaf that row r reaches in tree j, for
\* every row r and every j < L'.
LeafLimit ==
  IF call.req_end = 0 \/ call.req_end > NumTrees(call.model)
    THEN NumTrees(call.model) ELSE call.req_end
C15_LeafIndexLayout ==
  call.mode = "PredictLeaf" =>
    /\ Len(out_preds) = call.data.n * LeafLimit
    /\ pc = "done" =>
         \A r \in 0..(call.data.n - 1), j \in 0..(LeafLimit - 1) :
           At(out_preds, r * LeafLimit + j) = RefLeafIndex(At(call.model.trees, j), r)
C15_Witness ==
  /\ call.mode = "PredictLeaf" /\ pc = "done"
  /\ call.req_end = 1
  /\ NumTrees(call.model) >= 2
  /\ call.model.num_output_group >= 2
  /\ call.data.n = 2 /\ call.data.nbatch = 2
  /\ \E j \in 1..Len(out_preds) : out_preds[j] = 2
  /\ \E j \in 1..Len(out_preds) : out_preds[j] = 1

\* C16: in every call of PredictContribution no tree has its node mean values
\* filled twice, and once the call is past the loop over the trees (so before
\* the contributions of any row are calculated) FillNodeMeanValues has run
\* exactly once for each of the trees 0..limit-1 and for no other.
C16_MeanValuesBeforeRows ==
  (call.mode = "PredictContribution" /\ pc \in {"prepass", "rows_loop", "rows", "inter"}) =>
    LET limit == TreeLimit(call.model, call.req_end)
    IN  /\ Len(obs.mean_calls) = limit
        /\ \A j \in 1..limit : obs.mean_calls[j] <= 1
        /\ pc # "prepass" =>
             /\ \A j \in 1..limit : obs.mean_calls[j] = 1
             /\ kern.mean_done = 0..(limit - 1)
C16_Witness ==
  /\ call.mode = "PredictContribution"
  /\ ~inter.active
  /\ pc = "rows"
  /\ call.threads = MaxThreads
  /\ TreeLimit(call.model, call.req_end) = MaxTrees
  /\ \E j \in 1..Len(obs.bias) : obs.bias[j] # <<>>
  /\ \A j \in 1..MaxTrees : obs.mean_calls[j] = 1

\* The contribution of column k (the last is the bias) for (row, gid) under a
\* conditioning, read off the data set itself, for a base margin of the right
\* length or none
RefContribution(c, inf, row, gid, k, condition, condition_feature) ==
  LET ncolumns == c.model.num_feature + 1
      feats == FVecFillInst(FVecInit(c.model.num_feature), PageRow(row))
      cc == [c EXCEPT !.condition = condition, !.condition_feature = condition_feature]
  IN  GroupContribs(cc, gid, feats, ncolumns, 0)[k + 1]
        + (IF k # ncolumns - 1 THEN 0
           ELSE IF inf.margin_len # 0
             THEN At(BaseMargin(inf.margin_len), row * c.model.num_output_group + gid)
           ELSE c.model.base_score)
\* The sum of the cells 0..k of the row of the matrix that starts at o_offset
RECURSIVE MatrixRowSum(_, _, _)
MatrixRowSum(contribs, o_offset, k) ==
  IF k < 0 THEN 0 ELSE At(contribs, o_offset + k) + MatrixRowSum(contribs, o_offset, k - 1)
\* The rows i of the matrix that are composed
Composed == IF inter.stage \in {"composed", "off", "on", "done"} THEN 0..(inter.i - 1) ELSE {}
\* The matrices of the call have no more cells than an unsigned can count
MatrixFits ==
  info.num_row_ * call.model.num_output_group * (call.model.num_feature + 1)
    * (call.model.num_feature + 1) <= Pow2(UnsignedBits)

ExpectedPasses(F) ==
  [p \in 1..(1 + 2 * (F + 1)) |->
     IF p = 1 THEN <<0, 0>> ELSE <<(IF p % 2 = 0 THEN -1 ELSE 1), (p - 2) \div 2>>]
\* The passes run when the call is at stage st for index i
PassesAt(st, i) ==
  CASE st = "diag" -> 1
    [] st = "off" -> 2 + 2 * i
    [] st = "on" -> 3 + 2 * i
    [] st \in {"composed", "done"} -> 1 + 2 * i

RefContribs(c, inf) ==
  LET ncolumns == c.model.num_feature + 1
      ngroup == c.model.num_output_group
  IN  [idx \in 1..(inf.num_row_ * ngroup * ncolumns) |->
         RefContribution(c, inf, (idx - 1) \div (ngroup * ncolumns),
                         ((idx - 1) \div ncolumns) % ngroup, (idx - 1) % ncolumns,
                         c.condition, c.condition_feature)]
\* Cell [i][k] of the interaction matrix of (row j, group l) recomputed from
\* the raw rows
RefInteraction(c, inf, j, l, i, k) ==
  LET F == c.model.num_feature
      half(kk) == (RefContribution(c, inf, j, l, kk, 1, i)
                     - RefContribution(c, inf, j, l, kk, -1, i)) \div 2
  IN  IF k # i THEN half(k)
      ELSE RefContribution(c, inf, j, l, i, 0, 0)
             - MatrixRowSum([kk \in 1..(F + 1) |-> IF kk - 1 = i THEN 0 ELSE half(kk - 1)],
                            0, F)
\* The base margin is absent or covers every (row, group)
MarginCovers ==
  info.margin_len = 0 \/ info.margin_len >= info.num_row_ * call.model.num_output_group

StartedBlocks == {b.block_id : b \in kern.blocks}
Joined ==
  /\ kern.pending = {}
  /\ kern.status = "returned" =>
       /\ Busy = {}
       /\ StartedBlocks = 0..(kern.n_row_blocks - 1)
       /\ \A t \in 1..Len(loaded) : loaded[t] = <<>>
Returned == pc \in {"inited", "done"} /\ Joined

\* C18: a kernel call has returned only when every block task was started and
\* has done its fill, its evaluation and its drop; the loops over the rows of
\* PredictLeaf and PredictContribution go to the next batch, and the calls
\* return, only with no row or tree task left; the rows of PredictContribution
\* are worked on only after the mean values of every tree below the limit are
\* filled; and under fair scheduling every call that was made returns with
\* its tasks complete, unless a failed check ends it.
C18_JoinedAndReturns ==
  /\ [](/\ kern.status = "returned" => Joined
        /\ pc \in {"rows_loop", "inter", "done"} => Joined
        /\ (call.mode = "PredictContribution" /\ pc \in {"rows_loop", "rows"}) =>
             kern.mean_done = 0..(call.tree_end - 1))
  /\ (pc # "idle") ~> (Returned \/ pc = "aborted")
C18_Witness ==
  /\ Returned
  /\ call.mode = "PredictBatch"
  /\ call.threads = MaxThreads
  /\ kern.status = "returned"
  /\ kern.n_row_blocks = 3
  /\ StartedBlocks = 0..2

\* The exact places of row i of the matrix of (j, l) and of the cells of
\* (j, l) in the vectors of the passes
ExactOOffset(j, l, i, ngroup, ncolumns) ==
  j * ngroup * (ncolumns + 1) * (ncolumns + 1) + l * (ncolumns + 1) * (ncolumns + 1)
    + i * (ncolumns + 1)
ExactCOffset(j, l, ngroup, ncolumns) == j * ngroup * (ncolumns + 1) + l * (ncolumns + 1)

\* C21: in PredictInteractionContributions the offsets o_offset and c_offset
\* never wrap: for every row j, group l and indices i, k the cell written is
\* at the exact index j*G*(F+1)^2 + l*(F+1)^2 + i*(F+1) + k and the cell read
\* is at j*G*(F+1) + l*(F+1) + k, also when the matrix has more cells than an
\* unsigned can count.
C21_OffsetsNeverWrap ==
  inter.active =>
    LET ngroup == call.model.num_output_group
        ncolumns == call.model.num_feature
    IN  /\ \A w \in inter.written :
             w[5] = ExactOOffset(w[1], w[2], w[3], ngroup, ncolumns) + w[4]
        /\ \A r \in inter.read : r[4] = ExactCOffset(r[1], r[2], ngroup, ncolumns) + r[3]
\* The offsets are exact while the matrix has no more cells than an unsigned
\* can count
C21_ExactWhenFits ==
  (inter.active /\ MatrixFits) =>
    LET ngroup == call.model.num_output_group
        ncolumns == call.model.num_feature
    IN  /\ \A w \in inter.written :
             w[5] = ExactOOffset(w[1], w[2], w[3], ngroup, ncolumns) + w[4]
        /\ \A r \in inter.read : r[4] = ExactCOffset(r[1], r[2], ngroup, ncolumns) + r[3]
C21_WrapReached ==
  /\ inter.active
  /\ pc = "done"
  /\ ~MatrixFits
  /\ \E w \in inter.written :
       /\ ExactOOffset(w[1], w[2], w[3], call.model.num_output_group, call.model.num_feature)
            + w[4] >= Pow2(UnsignedBits)
       /\ w[5] < Pow2(UnsignedBits)

\* What a finished call of PredictInstance with limit L on G groups has done
\* if the limit is L*G: the trees [0, L*G), or all for 0 or too many, have
\* gone into G*(leafVectorSize+1) cells with one Fill and one Drop per group
InstanceAsStated ==
  LET G == call.model.num_output_group
      T == NumTrees(call.model)
      L == call.req_end
      lim == IF L * G = 0 \/ L * G > T THEN T ELSE L * G
  IN  /\ call.tree_end = lim
      /\ Len(out_preds) = G * (call.model.size_leaf_vector + 1)
      /\ \A g \in 0..(G - 1) :
           At(out_preds, g) = call.model.base_score
                                + RefSum(call.model, 0, lim, g, call.row, NaN)
      /\ obs.pv_fills = G
      /\ obs.pv_drops = G
      /\ obs.fill_clean
      /\ obs.drop_match
      /\ thread_temp = <<FVecInit(call.model.num_feature)>>

\* C22: PredictInstance with tree limit L and G output groups evaluates the
\* trees [0, L*G) when 0 < L*G <= numTrees and all trees when L*G is 0 or
\* more than numTrees; the output has G*(leafVectorSize+1) cells, cell g < G
\* is the base score plus the leaf values of the evaluated trees assigned to
\* g, and the single feature vector is filled once and dropped once per group.
C22_InstanceLimitPerGroup ==
  (pc = "done" /\ call.mode = "PredictInstance") => InstanceAsStated
\* The same for the limits whose product with the groups an unsigned holds
C22_HoldsBelowWidth ==
  (pc = "done" /\ call.mode = "PredictInstance"
     /\ call.req_end * call.model.num_output_group < Pow2(UnsignedBits)) => InstanceAsStated
C22_PerGroupReached ==
  /\ pc = "done"
  /\ call.mode = "PredictInstance"
  /\ call.model.num_output_group = MaxGroups
  /\ call.req_end = 1
  /\ call.tree_end = MaxGroups
  /\ NumTrees(call.model) > MaxGroups
  /\ InstanceAsStated
C22_WrapReached ==
  /\ pc = "done"
  /\ call.mode = "PredictInstance"
  /\ call.req_end * call.model.num_output_group >= Pow2(UnsignedBits)
  /\ call.tree_end < NumTrees(call.model)

====
